---- MODULE Spec2Model ----
(***************************************************************************)
(* Model of the discoid crate: the FIFO ring buffer CircularBuffer with    *)
(* its consuming iterator (src/src/lib.rs) and the slot buffer             *)
(* DiscoidBuffer (src/src/discoid.rs).                                     *)
(*                                                                         *)
(* Every method is a pure operator from the receiver (a record of the      *)
(* struct's fields) and the arguments to the receiver afterwards and the   *)
(* value returned; the actions apply these operators to the program state. *)
(* Option<T> is a record: None_ or Some(v).  Backing vectors are functions *)
(* on 0..capacity-1, as Vec is indexed from 0.  A panic is a returned      *)
(* Panic(msg) after which the thread that owns the buffer has unwound.     *)
(***************************************************************************)
EXTENDS Integers, Sequences, FiniteSets

\* Bounds of the exploration.
MaxCap == 3        \* capacities 0..MaxCap are constructed
NumValues == 2     \* element values 1..NumValues
MaxPushes == 4     \* successful pushes in one run of the FIFO buffer

Capacities == 0..MaxCap
Values == 1..NumValues
\* usize arguments that are tried: inside, at and past the capacity.
Args == 0..(MaxCap + 1)

VARIABLES
    cb,        \* the CircularBuffer: buffer, front, rear, capacity, len
    it,        \* the CircularBufferIntoIter: buffer, front, capacity, current, remaining
    db,        \* the DiscoidBuffer: buffer, front, capacity
    phase,     \* "live", "iter" (the buffer was moved into its iterator), "panicked"
    last,      \* the last call made: op, arg, ret, again (the call before had the same op and arg)
    pushLog,   \* history: the values whose push returned Ok, in call order
    outLog,    \* history: the values that left through pop ("pop") or remove_multiple ("rem")
    yielded,   \* history: the values the iterator's next has produced
    streak,    \* history: push calls made in a row since the buffer was empty, -1 once broken
    freed,     \* history: the slot emptied by a pop on a full buffer, if that was the last change
    window,    \* history: per logical index, the last set_at_index value, shifted by discards
    stated     \* history: per logical index, the last set_at_index value, cleared when passed

vars == <<cb, it, db, phase, last, pushLog, outLog, yielded, streak, freed, window, stated>>

logs == <<pushLog, outLog>>

----------------------------------------------------------------------------
\* Option<T> and the results of the calls

None_ == [tag |-> "None"]
Some(v) == [tag |-> "Some", val |-> v]
Ok == [tag |-> "Ok"]
Err(e) == [tag |-> "Err", err |-> e]
Unit == [tag |-> "Unit"]
Panic(msg) == [tag |-> "Panic", msg |-> msg]
BufferFull == "BufferFull"

is_some(o) == o.tag = "Some"

Min(a, b) == IF a < b THEN a ELSE b

----------------------------------------------------------------------------
\* CircularBuffer (src/src/lib.rs)

CircularBuffer_new(size) ==
    [buffer |-> [i \in 0..(size - 1) |-> None_],
     front |-> 0, rear |-> 0, capacity |-> size, len |-> 0]

len(self) == self.len

is_empty(self) == self.len = 0

\* is_full as in a ring that keeps one slot free to tell full from empty.
is_full_one_free(self) == self.len + 1 = self.capacity

is_full(self) == self.len = self.capacity

\* push that stores the value but leaves rear where it was.
push_rear_kept(self, value) ==
    IF is_full(self) THEN [self |-> self, ret |-> Err(BufferFull)]
    ELSE [self |-> [self EXCEPT !.buffer[self.rear] = Some(value),
                                !.len = self.len + 1],
          ret |-> Ok]

\* push that writes the slot at rear before it looks at is_full.
push_write_first(self, value) ==
    IF self.rear \notin DOMAIN self.buffer THEN [self |-> self, ret |-> Err(BufferFull)]
    ELSE IF is_full(self)
        THEN [self |-> [self EXCEPT !.buffer[self.rear] = Some(value)],
              ret |-> Err(BufferFull)]
    ELSE [self |-> [self EXCEPT !.buffer[self.rear] = Some(value),
                                !.rear = (self.rear + 1) % self.capacity,
                                !.len = self.len + 1],
          ret |-> Ok]

\* push that advances rear without wrapping it.
push_rear_unwrapped(self, value) ==
    IF is_full(self) THEN [self |-> self, ret |-> Err(BufferFull)]
    ELSE IF self.rear \notin DOMAIN self.buffer
        THEN [self |-> self, ret |-> Panic("index out of bounds")]
    ELSE [self |-> [self EXCEPT !.buffer[self.rear] = Some(value),
                                !.rear = self.rear + 1,
                                !.len = self.len + 1],
          ret |-> Ok]

push(self, value) ==
    IF is_full(self) THEN [self |-> self, ret |-> Err(BufferFull)]
    ELSE IF self.rear \notin DOMAIN self.buffer
        THEN [self |-> self, ret |-> Panic("index out of bounds")]
    ELSE IF self.capacity = 0
        THEN [self |-> [self EXCEPT !.buffer[self.rear] = Some(value)],
              ret |-> Panic("remainder by zero")]
    ELSE [self |-> [self EXCEPT !.buffer[self.rear] = Some(value),
                                !.rear = (self.rear + 1) % self.capacity,
                                !.len = self.len + 1],
          ret |-> Ok]

\* pop without the is_empty test.
pop_unchecked(self) ==
    IF self.front \notin DOMAIN self.buffer
        THEN [self |-> self, ret |-> Panic("index out of bounds")]
    ELSE IF ~is_some(self.buffer[self.front])
        THEN [self |-> self,
              ret |-> Panic("Buffer invariant violated: None value in non-empty buffer")]
    ELSE [self |-> [self EXCEPT !.buffer[self.front] = None_,
                                !.front = (self.front + 1) % self.capacity,
                                !.len = self.len - 1],
          ret |-> Some(self.buffer[self.front].val)]

\* pop that copies the value out and leaves it in its slot.
pop_slot_kept(self) ==
    IF is_empty(self) THEN [self |-> self, ret |-> None_]
    ELSE IF ~is_some(self.buffer[self.front])
        THEN [self |-> self,
              ret |-> Panic("Buffer invariant violated: None value in non-empty buffer")]
    ELSE [self |-> [self EXCEPT !.front = (self.front + 1) % self.capacity,
                                !.len = self.len - 1],
          ret |-> Some(self.buffer[self.front].val)]

pop(self) ==
    IF is_empty(self) THEN [self |-> self, ret |-> None_]
    ELSE IF self.front \notin DOMAIN self.buffer
        THEN [self |-> self, ret |-> Panic("index out of bounds")]
    ELSE IF ~is_some(self.buffer[self.front])
        THEN [self |-> self,
              ret |-> Panic("Buffer invariant violated: None value in non-empty buffer")]
    ELSE IF self.capacity = 0
        THEN [self |-> [self EXCEPT !.buffer[self.front] = None_],
              ret |-> Panic("remainder by zero")]
    ELSE [self |-> [self EXCEPT !.buffer[self.front] = None_,
                                !.front = (self.front + 1) % self.capacity,
                                !.len = self.len - 1],
          ret |-> Some(self.buffer[self.front].val)]

\* get that indexes the backing vector from 0 instead of from front.
get_from_zero(self, index) ==
    IF index >= self.len THEN None_
    ELSE self.buffer[index % self.capacity]

get(self, index) ==
    IF index >= self.len THEN None_
    ELSE IF self.capacity = 0 THEN Panic("remainder by zero")
    ELSE IF (self.front + index) % self.capacity \notin DOMAIN self.buffer
        THEN Panic("index out of bounds")
    ELSE self.buffer[(self.front + index) % self.capacity]

\* The body of remove_multiple's loop, run n times; dropped collects the
\* Option values that the assignments of None overwrite (and so drop).
RECURSIVE remove_loop(_, _, _)
remove_loop(self, n, dropped) ==
    IF n = 0 THEN [self |-> self, ret |-> Unit, dropped |-> dropped]
    ELSE IF self.front \notin DOMAIN self.buffer
        THEN [self |-> self, ret |-> Panic("index out of bounds"), dropped |-> dropped]
    ELSE IF self.capacity = 0
        THEN [self |-> [self EXCEPT !.buffer[self.front] = None_],
              ret |-> Panic("remainder by zero"),
              dropped |-> Append(dropped, self.buffer[self.front])]
    ELSE IF self.len = 0
        THEN [self |-> [self EXCEPT !.buffer[self.front] = None_,
                                    !.front = (self.front + 1) % self.capacity],
              ret |-> Panic("attempt to subtract with overflow"),
              dropped |-> Append(dropped, self.buffer[self.front])]
    ELSE remove_loop([self EXCEPT !.buffer[self.front] = None_,
                                  !.front = (self.front + 1) % self.capacity,
                                  !.len = self.len - 1],
                     n - 1, Append(dropped, self.buffer[self.front]))

\* remove_multiple that moves front and len but leaves the slots as they are.
remove_multiple_slots_kept(self, count) ==
    LET count_to_remove == IF count > self.len THEN self.len ELSE count
    IN  [self |-> IF count_to_remove = 0 THEN self
                  ELSE [self EXCEPT !.front = (self.front + count_to_remove) % self.capacity,
                                    !.len = self.len - count_to_remove],
         ret |-> Unit,
         dropped |-> [i \in 1..count_to_remove |->
                         self.buffer[(self.front + i - 1) % self.capacity]]]

\* remove_multiple whose loop runs count times, not min(count, len) times.
remove_multiple_unclamped(self, count) == remove_loop(self, count, <<>>)

remove_multiple(self, count) ==
    LET count_to_remove == IF count > self.len THEN self.len ELSE count
    IN  remove_loop(self, count_to_remove, <<>>)

----------------------------------------------------------------------------
\* CircularBufferIntoIter (src/src/lib.rs)

into_iter(self) ==
    [buffer |-> self.buffer, front |-> self.front, capacity |-> self.capacity,
     current |-> 0, remaining |-> self.len]

\* next that counts from slot 0 instead of from front.
next_from_zero(iter) ==
    IF iter.remaining = 0 THEN [self |-> iter, ret |-> None_]
    ELSE LET index == iter.current % iter.capacity
         IN  [self |-> [iter EXCEPT !.current = iter.current + 1,
                                    !.remaining = iter.remaining - 1,
                                    !.buffer[index] = None_],
              ret |-> iter.buffer[index]]

\* next that reads its slot and leaves the value in it.
next_slot_kept(iter) ==
    IF iter.remaining = 0 THEN [self |-> iter, ret |-> None_]
    ELSE IF iter.capacity = 0 THEN [self |-> iter, ret |-> Panic("remainder by zero")]
    ELSE LET index == (iter.front + iter.current) % iter.capacity
         IN  [self |-> [iter EXCEPT !.current = iter.current + 1,
                                    !.remaining = iter.remaining - 1],
              ret |-> iter.buffer[index]]

next(iter) ==
    IF iter.remaining = 0 THEN [self |-> iter, ret |-> None_]
    ELSE IF iter.capacity = 0 THEN [self |-> iter, ret |-> Panic("remainder by zero")]
    ELSE LET index == (iter.front + iter.current) % iter.capacity
             stepped == [iter EXCEPT !.current = iter.current + 1,
                                     !.remaining = iter.remaining - 1]
         IN  IF index \notin DOMAIN iter.buffer
                 THEN [self |-> stepped, ret |-> Panic("index out of bounds")]
             ELSE [self |-> [stepped EXCEPT !.buffer[index] = None_],
                   ret |-> iter.buffer[index]]

\* The iterator before into_iter has made one: nothing to iterate.
NoIter == [buffer |-> <<>>, front |-> 0, capacity |-> 0, current |-> 0, remaining |-> 0]

----------------------------------------------------------------------------
\* DiscoidBuffer (src/src/discoid.rs)

DiscoidBuffer_new(size) ==
    [buffer |-> [i \in 0..(size - 1) |-> None_], front |-> 0, capacity |-> size]

\* set_at_index that lets an index past the capacity wrap around.
set_at_index_wrapping(self, index, value) ==
    LET buffer_len == self.capacity
    IN  IF buffer_len = 0
            THEN [self |-> self, ret |-> Panic("discoid buffer: index out of bounds")]
        ELSE [self |-> [self EXCEPT !.buffer[(self.front + index) % buffer_len] = Some(value)],
              ret |-> Unit]

\* set_at_index that writes the slot at index, not the one at front + index.
set_at_index_absolute(self, index, value) ==
    LET buffer_len == self.capacity
    IN  IF index >= buffer_len
            THEN [self |-> self, ret |-> Panic("discoid buffer: index out of bounds")]
        ELSE [self |-> [self EXCEPT !.buffer[index] = Some(value)], ret |-> Unit]

set_at_index(self, index, value) ==
    LET buffer_len == self.capacity
    IN  IF index >= buffer_len
            THEN [self |-> self, ret |-> Panic("discoid buffer: index out of bounds")]
        ELSE [self |-> [self EXCEPT !.buffer[(self.front + index) % buffer_len] = Some(value)],
              ret |-> Unit]

get_ref_at_index(self, index) ==
    LET buffer_len == self.capacity
    IN  IF index >= buffer_len THEN None_
        ELSE self.buffer[(self.front + index) % buffer_len]

\* get_at_index that lets an index past the capacity wrap around.
get_at_index_wrapping(self, index) ==
    LET buffer_len == self.capacity
    IN  IF buffer_len = 0 THEN None_
        ELSE self.buffer[(self.front + index) % buffer_len]

get_at_index(self, index) ==
    LET buffer_len == self.capacity
    IN  IF index >= buffer_len THEN None_
        ELSE LET absolute_index == (self.front + index) % buffer_len
             IN  self.buffer[absolute_index]

\* The body of discard_front's loop, run n times.
RECURSIVE discard_loop(_, _)
discard_loop(self, n) ==
    IF n = 0 THEN self
    ELSE discard_loop([self EXCEPT !.buffer[self.front] = None_,
                                   !.front = (self.front + 1) % self.capacity],
                      n - 1)

\* discard_front that clears the slots from front on but leaves front.
discard_front_front_kept(self, count) ==
    IF count > self.capacity
        THEN [self |-> self, ret |-> Panic("discoid buffer: discarding too much")]
    ELSE [self |-> [self EXCEPT !.buffer = discard_loop(self, count).buffer],
          ret |-> Unit]

\* discard_front whose loop runs once more than asked.
discard_front_one_more(self, count) ==
    IF count > self.capacity
        THEN [self |-> self, ret |-> Panic("discoid buffer: discarding too much")]
    ELSE IF self.capacity = 0 THEN [self |-> self, ret |-> Unit]
    ELSE [self |-> discard_loop(self, count + 1), ret |-> Unit]

\* discard_front that runs its loop before it looks at the count.
discard_front_check_after(self, count) ==
    IF self.capacity = 0
        THEN IF count > 0
                 THEN [self |-> self, ret |-> Panic("discoid buffer: discarding too much")]
             ELSE [self |-> self, ret |-> Unit]
    ELSE IF count > self.capacity
        THEN [self |-> discard_loop(self, count),
              ret |-> Panic("discoid buffer: discarding too much")]
    ELSE [self |-> discard_loop(self, count), ret |-> Unit]

\* discard_front that advances front past the slots without clearing them.
discard_front_slots_kept(self, count) ==
    IF count > self.capacity
        THEN [self |-> self, ret |-> Panic("discoid buffer: discarding too much")]
    ELSE [self |-> [self EXCEPT !.front = discard_loop(self, count).front],
          ret |-> Unit]

discard_front(self, count) ==
    IF count > self.capacity
        THEN [self |-> self, ret |-> Panic("discoid buffer: discarding too much")]
    ELSE [self |-> discard_loop(self, count), ret |-> Unit]

\* bits | (1 << i) on u64, for i < 64: setting a bit below 64 cannot overflow.
BitOr(bits, i) == IF (bits \div (2 ^ i)) % 2 = 1 THEN bits ELSE bits + 2 ^ i

\* The loop of get_bits_representation from i up to the capacity.  A shift by
\* 64 or more (a capacity above 64) panics in a build with overflow checks.
RECURSIVE bits_loop(_, _, _)
bits_loop(self, i, bits) ==
    IF i >= self.capacity THEN bits
    ELSE IF i >= 64 THEN Panic("attempt to shift left with overflow")
    ELSE LET index == (self.front + i) % self.capacity
         IN  bits_loop(self, i + 1,
                       IF is_some(self.buffer[index]) THEN BitOr(bits, i) ELSE bits)

\* get_bits_representation that tests the slot at i, not the one at front + i.
RECURSIVE bits_loop_absolute(_, _, _)
bits_loop_absolute(self, i, bits) ==
    IF i >= self.capacity THEN bits
    ELSE bits_loop_absolute(self, i + 1,
                            IF is_some(self.buffer[i]) THEN BitOr(bits, i) ELSE bits)

get_bits_absolute(self) == bits_loop_absolute(self, 0, 0)

get_bits_representation(self) == bits_loop(self, 0, 0)

----------------------------------------------------------------------------
\* The calls a program makes on one CircularBuffer

\* The argument recorded for a call that takes none.
NoArg == <<>>

Call(op, arg, ret) ==
    [op |-> op, arg |-> arg, ret |-> ret,
     again |-> (last.op = op /\ last.arg = arg)]

After(ret) == IF ret.tag = "Panic" THEN "panicked" ELSE phase

InitFifo ==
    /\ \E size \in Capacities : cb = CircularBuffer_new(size)
    /\ it = NoIter
    /\ db = DiscoidBuffer_new(0)
    /\ phase = "live"
    /\ last = [op |-> "new", arg |-> NoArg, ret |-> Unit, again |-> FALSE]
    /\ pushLog = <<>>
    /\ outLog = <<>>
    /\ yielded = <<>>
    /\ streak = 0
    /\ freed = None_
    /\ window = <<>>
    /\ stated = <<>>

Push(value) ==
    /\ phase = "live"
    /\ LET r == push(cb, value)
       IN  /\ cb' = r.self
           /\ last' = Call("push", value, r.ret)
           /\ phase' = After(r.ret)
           /\ streak' = IF streak < 0 THEN -1 ELSE Min(streak + 1, cb.capacity + 1)
           /\ freed' = IF is_some(freed) THEN [tag |-> "Reused", val |-> freed.val]
                       ELSE None_
    /\ UNCHANGED <<it, db, yielded, window, stated>>

Pop ==
    /\ phase = "live"
    /\ LET r == pop(cb)
       IN  /\ cb' = r.self
           /\ last' = Call("pop", NoArg, r.ret)
           /\ phase' = After(r.ret)
           /\ streak' = IF r.self.len = 0 THEN 0 ELSE -1
           /\ freed' = IF is_full(cb) /\ is_some(r.ret) THEN Some(cb.front) ELSE None_
    /\ UNCHANGED <<it, db, yielded, window, stated>>

Get(index) ==
    /\ phase = "live"
    /\ LET r == get(cb, index)
       IN  /\ last' = Call("get", index, r)
           /\ phase' = After(r)
    /\ UNCHANGED <<cb, it, db, yielded, streak, freed, window, stated>>

RemoveMultiple(count) ==
    /\ phase = "live"
    /\ LET r == remove_multiple(cb, count)
       IN  /\ cb' = r.self
           /\ last' = Call("remove_multiple", count, r.ret)
           /\ phase' = After(r.ret)
           /\ streak' = IF r.self.len = 0 THEN 0 ELSE -1
           /\ freed' = None_
    /\ UNCHANGED <<it, db, yielded, window, stated>>

IntoIter ==
    /\ phase = "live"
    /\ it' = into_iter(cb)
    /\ phase' = "iter"
    /\ last' = Call("into_iter", NoArg, Unit)
    /\ UNCHANGED <<cb, db, yielded, streak, freed, window, stated>>

IterNext ==
    /\ phase = "iter"
    /\ LET r == next(it)
       IN  /\ it' = r.self
           /\ last' = Call("next", NoArg, r.ret)
           /\ phase' = After(r.ret)
           /\ yielded' = IF is_some(r.ret) THEN Append(yielded, r.ret.val) ELSE yielded
    /\ UNCHANGED <<cb, db, streak, freed, window, stated>>

Next ==
    \/ \E value \in Values : Push(value) /\ UNCHANGED logs
    \/ Pop /\ UNCHANGED logs
    \/ \E index \in Args : Get(index) /\ UNCHANGED logs
    \/ \E count \in Args : RemoveMultiple(count) /\ UNCHANGED logs
    \/ IntoIter /\ UNCHANGED logs
    \/ IterNext /\ UNCHANGED logs

Spec == InitFifo /\ [][Next]_vars

----------------------------------------------------------------------------
\* The same calls with the history of what went in and what came out, for
\* runs of at most MaxPushes accepted pushes.

LogPush(value) ==
    /\ is_full(cb) \/ Len(pushLog) < MaxPushes
    /\ pushLog' = IF last'.ret = Ok THEN Append(pushLog, value) ELSE pushLog
    /\ outLog' = outLog

LogPop ==
    /\ outLog' = IF is_some(last'.ret)
                 THEN Append(outLog, [v |-> last'.ret, kind |-> "pop"])
                 ELSE outLog
    /\ pushLog' = pushLog

LogRemove(count) ==
    /\ LET dropped == remove_multiple(cb, count).dropped
       IN  outLog' = outLog \o [i \in 1..Len(dropped) |-> [v |-> dropped[i], kind |-> "rem"]]
    /\ pushLog' = pushLog

NextFifoLaw ==
    \/ \E value \in Values : Push(value) /\ LogPush(value)
    \/ Pop /\ LogPop
    \/ \E count \in 0..(cb.len + 1) : RemoveMultiple(count) /\ LogRemove(count)

SpecFifoLaw == InitFifo /\ [][NextFifoLaw]_vars

----------------------------------------------------------------------------
\* Properties of CircularBuffer

\* The receiver after n calls of pop, the values thrown away.
RECURSIVE PopTimes(_, _)
PopTimes(self, n) == IF n = 0 THEN self ELSE PopTimes(pop(self).self, n - 1)

\* The occupants of the len slots from front on, wrapping, front first.
Contents(self) ==
    [i \in 1..self.len |-> self.buffer[(self.front + i - 1) % self.capacity]]

\* C1 (FIFO law): in every run of push, pop and remove_multiple, the i-th
\* value to leave the buffer, returned by pop or dropped by remove_multiple,
\* is the i-th value whose push returned Ok; the accepted values that have
\* not left are exactly the len still stored.  So the values pop returns are
\* the accepted values that remove_multiple did not drop, in push order, none
\* lost, repeated or out of order, wrapped or not.
C1_FifoLaw ==
    /\ Len(outLog) + len(cb) = Len(pushLog)
    /\ \A i \in 1..Len(outLog) : outLog[i].v = Some(pushLog[i])

\* A pop has returned a value stored after rear wrapped, later than a
\* remove_multiple dropped another, distinct from the value pushed before it.
C1_Witness ==
    /\ cb.capacity > 1
    /\ \E i, j \in 1..Len(outLog) :
          /\ i < j
          /\ j > cb.capacity
          /\ outLog[i].kind = "rem"
          /\ outLog[j].kind = "pop"
          /\ pushLog[j] # pushLog[j - 1]
    /\ last.op = "pop"

\* C2: a push on a full buffer returns Err(BufferFull) and changes neither
\* front, rear, len nor any slot.
C2_PushFullRejected ==
    [][(last'.op = "push" /\ phase = "live" /\ is_full(cb))
          => (last'.ret = Err(BufferFull) /\ cb' = cb)]_vars

\* A push was rejected by a full buffer whose occupied run wraps.
C2_Witness ==
    /\ last.op = "push"
    /\ last.ret = Err(BufferFull)
    /\ cb.capacity > 1
    /\ cb.front > 0

\* C3 (idempotence of absence): pop on an empty buffer and get at an index
\* >= len return None and change neither front, rear, len nor any slot; and
\* when such a call returned None, the same call made again right after it
\* returns None too and changes nothing.
C3_AbsenceIdempotent ==
    [][/\ (last'.op = "pop" /\ phase = "live" /\ is_empty(cb))
            => (last'.ret = None_ /\ cb' = cb)
       /\ (last'.op = "get" /\ phase = "live" /\ last'.arg >= len(cb))
            => (last'.ret = None_ /\ cb' = cb)
       /\ (last'.op \in {"pop", "get"} /\ last'.again /\ last.ret = None_)
            => (last'.ret = None_ /\ cb' = cb)]_vars

\* Two gets in a row past len but inside the capacity returned None, from a
\* buffer that is not empty and was used before.
C3_Witness ==
    /\ last.op = "get"
    /\ last.again
    /\ last.ret = None_
    /\ last.arg < cb.capacity
    /\ ~is_empty(cb)

\* C4 (capacity boundary), for capacity > 0: of the push calls made in a row
\* from an empty buffer the first capacity succeed, each adding one to len;
\* after them is_full holds and len is the capacity; the next push returns
\* Err(BufferFull); and the push that follows a pop on a full buffer succeeds
\* and stores its value in the slot that pop emptied.
C4_CapacityBoundary ==
    cb.capacity > 0 =>
        /\ (streak \in 0..cb.capacity) => len(cb) = streak
        /\ (streak \in 1..cb.capacity /\ last.op = "push") => last.ret = Ok
        /\ (streak = cb.capacity) => (is_full(cb) /\ len(cb) = cb.capacity)
        /\ (streak = cb.capacity + 1 /\ last.op = "push")
              => (last.ret = Err(BufferFull) /\ is_full(cb))
        /\ (freed.tag = "Reused" /\ last.op = "push")
              => (last.ret = Ok /\ cb.buffer[freed.val] = Some(last.arg))

\* A push has just succeeded into the slot freed by a pop on a full buffer,
\* away from slot 0, and filled the buffer again.
C4_Witness ==
    /\ freed.tag = "Reused"
    /\ freed.val > 0
    /\ last.op = "push"
    /\ last.ret = Ok
    /\ is_full(cb)
    /\ cb.capacity > 1

\* C5: remove_multiple(count) returns normally and leaves front, rear, len
\* and every slot as min(count, len) calls of pop leave them; a count above
\* len empties the buffer and a count of 0 changes nothing.
C5_RemoveMultipleIsPops ==
    [][(last'.op = "remove_multiple" /\ phase = "live")
          => /\ last'.ret = Unit
             /\ cb' = PopTimes(cb, Min(last'.arg, len(cb)))
             /\ (last'.arg > len(cb) => is_empty(cb'))
             /\ (last'.arg = 0 => cb' = cb)]_vars

\* remove_multiple has taken two or more values, not all, with front
\* wrapping back to slot 0.
C5_Witness ==
    /\ last.op = "remove_multiple"
    /\ last.arg >= 2
    /\ ~is_empty(cb)
    /\ cb.front = 0
    /\ cb.capacity > 2

\* C6 (peek): get(index) with index < len is the value the (index+1)-th pop
\* from this state returns; with index >= len it is None, also below the
\* capacity; and the state a get call leaves is the state its result was
\* read from.
C6_PeekIsFuturePop ==
    /\ \A index \in Args :
          /\ index < len(cb) => get(cb, index) = pop(PopTimes(cb, index)).ret
          /\ index >= len(cb) => get(cb, index) = None_
    /\ last.op = "get"
          => last.ret = IF last.arg < len(cb) THEN pop(PopTimes(cb, last.arg)).ret
                        ELSE None_

\* A get past the front returned a value from a slot reached by wrapping.
C6_Witness ==
    /\ phase = "live"
    /\ last.op = "get"
    /\ last.arg > 0
    /\ is_some(last.ret)
    /\ cb.front + last.arg >= cb.capacity

\* C7 (consuming iteration): the values next has produced are the first of
\* the buffer's contents at into_iter, front first; next returns None only
\* once len values were produced, and then it does return None.
C7_IterYieldsContents ==
    phase = "iter" =>
        /\ Len(yielded) <= len(cb)
        /\ \A i \in 1..Len(yielded) : Contents(cb)[i] = Some(yielded[i])
        /\ (last.op = "next" /\ last.ret = None_) => Len(yielded) = len(cb)
        /\ (Len(yielded) = len(cb)) => next(it).ret = None_
        /\ (Len(yielded) < len(cb)) => is_some(next(it).ret)

\* The iteration of a buffer whose occupied run wraps has ended after
\* producing its two or more values.
C7_Witness ==
    /\ phase = "iter"
    /\ last.op = "next"
    /\ last.ret = None_
    /\ len(cb) >= 2
    /\ Len(yielded) = len(cb)
    /\ cb.front + len(cb) > cb.capacity

----------------------------------------------------------------------------
\* The calls a program makes on one DiscoidBuffer

InitSlot ==
    /\ \E size \in Capacities :
          /\ db = DiscoidBuffer_new(size)
          /\ window = [i \in 0..(size - 1) |-> None_]
          /\ stated = [i \in 0..(size - 1) |-> None_]
    /\ cb = CircularBuffer_new(0)
    /\ it = NoIter
    /\ phase = "live"
    /\ last = [op |-> "new", arg |-> NoArg, ret |-> Unit, again |-> FALSE]
    /\ pushLog = <<>>
    /\ outLog = <<>>
    /\ yielded = <<>>
    /\ streak = 0
    /\ freed = None_

fifoVars == <<cb, it, pushLog, outLog, yielded, streak, freed>>

SetAtIndex(index, value) ==
    /\ phase = "live"
    /\ LET r == set_at_index(db, index, value)
       IN  /\ db' = r.self
           /\ last' = Call("set_at_index", <<index, value>>, r.ret)
           /\ phase' = After(r.ret)
           /\ window' = IF r.ret = Unit THEN [window EXCEPT ![index] = Some(value)]
                        ELSE window
    /\ UNCHANGED fifoVars

GetRefAtIndex(index) ==
    /\ phase = "live"
    /\ last' = Call("get_ref_at_index", index, get_ref_at_index(db, index))
    /\ UNCHANGED <<db, phase, window, fifoVars>>

GetAtIndex(index) ==
    /\ phase = "live"
    /\ last' = Call("get_at_index", index, get_at_index(db, index))
    /\ UNCHANGED <<db, phase, window, fifoVars>>

DiscardFront(count) ==
    /\ phase = "live"
    /\ LET r == discard_front(db, count)
       IN  /\ db' = r.self
           /\ last' = Call("discard_front", count, r.ret)
           /\ phase' = After(r.ret)
           /\ window' = IF r.ret = Unit
                        THEN [i \in DOMAIN window |->
                                 IF i + count \in DOMAIN window THEN window[i + count]
                                 ELSE None_]
                        ELSE window
    /\ UNCHANGED fifoVars

GetBitsRepresentation ==
    /\ phase = "live"
    /\ last' = Call("get_bits_representation", NoArg, get_bits_representation(db))
    /\ UNCHANGED <<db, phase, window, fifoVars>>

NextSlot ==
    \/ \E index \in Args, value \in Values : SetAtIndex(index, value) /\ UNCHANGED stated
    \/ \E index \in Args : GetRefAtIndex(index) /\ UNCHANGED stated
    \/ \E index \in Args : GetAtIndex(index) /\ UNCHANGED stated
    \/ \E count \in Args : DiscardFront(count) /\ UNCHANGED stated
    \/ GetBitsRepresentation /\ UNCHANGED stated

SpecSlot == InitSlot /\ [][NextSlot]_vars

----------------------------------------------------------------------------
\* The writes alone, with the record of what each logical index was last
\* set to: kept until a discard_front passes that index.

StatedSet(index, value) ==
    stated' = IF last'.ret = Unit THEN [stated EXCEPT ![index] = Some(value)] ELSE stated

StatedDiscard(count) ==
    stated' = IF last'.ret = Unit
              THEN [i \in DOMAIN stated |-> IF i < count THEN None_ ELSE stated[i]]
              ELSE stated

NextSlotWrites ==
    \/ \E index \in Args, value \in Values : SetAtIndex(index, value) /\ StatedSet(index, value)
    \/ \E count \in Args : DiscardFront(count) /\ StatedDiscard(count)

SpecSlotWrites == InitSlot /\ [][NextSlotWrites]_vars

----------------------------------------------------------------------------
\* Properties of DiscoidBuffer

LogicalIndices == 0..(db.capacity - 1)

\* C8 as stated: get_at_index(i) is the value of the last set_at_index(i, v),
\* or absent once a discard_front(count) with count > i has passed index i.
C8_AsStated ==
    \A i \in LogicalIndices : get_at_index(db, i) = stated[i]

\* C8 as amended: a discard_front(count) renumbers the logical indices, the
\* slot that was index i + count becoming index i; get_at_index(i) is the
\* value of the last set_at_index that wrote the slot now at index i, and is
\* absent when there was none since the slot was last discarded.
C8_SetThenGetShifted ==
    \A i \in LogicalIndices : get_at_index(db, i) = window[i]

\* A value set at a higher index is read at a lower one after a discard_front
\* that did not reach it, with front away from slot 0.
C8_Witness ==
    /\ last.op = "discard_front"
    /\ last.ret = Unit
    /\ last.arg \in 1..(db.capacity - 1)
    /\ db.front > 0
    /\ \E i \in LogicalIndices :
          /\ is_some(get_at_index(db, i))
          /\ get_at_index(db, i) = stated[i + last.arg]
          /\ get_at_index(db, i) # stated[i]

\* C9 as stated: set_at_index with index >= capacity (on a buffer of capacity
\* > 0) returns a failure value to its caller and changes neither front nor
\* any slot.
C9_AsStated ==
    [][(last'.op = "set_at_index" /\ db.capacity > 0 /\ last'.arg[1] >= db.capacity)
          => (last'.ret.tag = "Err" /\ db' = db)]_vars

\* C9 as amended: set_at_index with index >= capacity panics with "discoid
\* buffer: index out of bounds", having changed neither front nor any slot.
C9_SetOutOfRangePanics ==
    [][(last'.op = "set_at_index" /\ phase = "live" /\ last'.arg[1] >= db.capacity)
          => /\ last'.ret = Panic("discoid buffer: index out of bounds")
             /\ phase' = "panicked"
             /\ db' = db]_vars

\* set_at_index was called with an index past the capacity on a buffer that
\* holds a value in the slot the index would wrap to.
C9_Witness ==
    /\ last.op = "set_at_index"
    /\ last.arg[1] >= db.capacity
    /\ db.capacity > 0
    /\ is_some(db.buffer[(db.front + last.arg[1]) % db.capacity])
    /\ db.front > 0

\* C10: for any index, get_at_index and get_ref_at_index return the same:
\* None when index >= capacity or the slot at (front + index) mod capacity is
\* empty, its occupant otherwise, never a panic; and the buffer after either
\* call is the buffer the result was read from.
C10_ReadsSignalAbsence ==
    /\ \A index \in Args :
          /\ get_at_index(db, index) = get_ref_at_index(db, index)
          /\ get_at_index(db, index) =
                IF index >= db.capacity THEN None_
                ELSE db.buffer[(db.front + index) % db.capacity]
          /\ get_at_index(db, index).tag \in {"None", "Some"}
    /\ (last.op \in {"get_at_index", "get_ref_at_index"})
          => last.ret = IF last.arg >= db.capacity THEN None_
                        ELSE db.buffer[(db.front + last.arg) % db.capacity]

\* get_at_index returned None for an index past the capacity that would wrap
\* to an occupied slot.
C10_Witness ==
    /\ last.op = "get_at_index"
    /\ last.ret = None_
    /\ last.arg >= db.capacity
    /\ db.capacity > 0
    /\ is_some(db.buffer[(db.front + last.arg) % db.capacity])

\* The absolute slots of the first count logical indices.
FrontSlots(self, count) ==
    {a \in DOMAIN self.buffer : \E j \in 0..(count - 1) : a = (self.front + j) % self.capacity}

\* C11: discard_front(count) with count <= capacity returns normally, empties
\* exactly the slots (front + j) mod capacity for j < count, leaves every
\* other slot, and moves front to (front + count) mod capacity; with count ==
\* capacity every slot is empty and front is where it was, with count == 0
\* nothing changes.
C11_DiscardFrontEffect ==
    [][(last'.op = "discard_front" /\ phase = "live" /\ last'.arg <= db.capacity)
          => /\ last'.ret = Unit
             /\ db'.capacity = db.capacity
             /\ DOMAIN db'.buffer = DOMAIN db.buffer
             /\ \A a \in DOMAIN db.buffer :
                   db'.buffer[a] = IF a \in FrontSlots(db, last'.arg) THEN None_
                                   ELSE db.buffer[a]
             /\ db'.front = IF db.capacity = 0 THEN db.front
                            ELSE (db.front + last'.arg) % db.capacity
             /\ (last'.arg = db.capacity
                   => /\ db'.front = db.front
                      /\ \A a \in DOMAIN db.buffer : db'.buffer[a] = None_)
             /\ (last'.arg = 0 => db' = db)]_vars

\* A discard_front of two or more slots, not all, has wrapped front past the
\* end of the backing vector and left a value in place.
C11_Witness ==
    /\ last.op = "discard_front"
    /\ last.ret = Unit
    /\ last.arg >= 2
    /\ last.arg < db.capacity
    /\ 0 < db.front
    /\ db.front < last.arg
    /\ \E a \in DOMAIN db.buffer : is_some(db.buffer[a])

\* C12 as stated: discard_front(count) with count > capacity (on a buffer of
\* capacity > 0) returns a failure value to its caller, clears no slot and
\* leaves front.
C12_AsStated ==
    [][(last'.op = "discard_front" /\ db.capacity > 0 /\ last'.arg > db.capacity)
          => (last'.ret.tag = "Err" /\ db' = db)]_vars

\* C12 as amended: discard_front(count) with count > capacity panics with
\* "discoid buffer: discarding too much", having cleared no slot and left
\* front where it was.
C12_OverDiscardPanics ==
    [][(last'.op = "discard_front" /\ phase = "live" /\ last'.arg > db.capacity)
          => /\ last'.ret = Panic("discoid buffer: discarding too much")
             /\ phase' = "panicked"
             /\ db' = db]_vars

\* discard_front was called with a count above the capacity on a buffer that
\* holds a value at its front, away from slot 0.
C12_Witness ==
    /\ last.op = "discard_front"
    /\ last.arg > db.capacity
    /\ db.capacity > 0
    /\ db.front > 0
    /\ is_some(db.buffer[db.front])

\* Bit i of the unsigned integer b.
Bit(b, i) == (b \div (2 ^ i)) % 2

\* The bit positions looked at: every logical index and two beyond.
BitPositions == 0..(MaxCap + 2)

\* C13 (occupancy bitmask): in every state reached by set_at_index and
\* discard_front (the reads in between change nothing), bit i of
\* get_bits_representation() is set exactly when i < capacity and
\* get_at_index(i) is present, so every bit from the capacity up is clear and
\* front's absolute position does not show; and the buffer after the call is
\* the buffer the mask was computed from.
C13_BitmaskIsOccupancy ==
    /\ \A i \in BitPositions :
          (Bit(get_bits_representation(db), i) = 1)
              <=> (i < db.capacity /\ is_some(get_at_index(db, i)))
    /\ last.op = "get_bits_representation"
          => \A i \in BitPositions :
                (Bit(last.ret, i) = 1) <=> (i < db.capacity /\ is_some(get_at_index(db, i)))

\* get_bits_representation returned 0b101 for a buffer of three slots with a
\* gap at logical index 1, its front away from slot 0.
C13_Witness ==
    /\ last.op = "get_bits_representation"
    /\ last.ret = 5
    /\ db.capacity = 3
    /\ db.front > 0
    /\ ~is_some(get_at_index(db, 1))

\* C17 (frame of set_at_index): set_at_index(index, value) with index <
\* capacity returns normally and changes one slot only, the one at
\* (front + index) mod capacity, which then holds value whatever it held;
\* front, capacity and all other slots, empty or occupied, stay as they were.
C17_SetAtIndexFrame ==
    [][(last'.op = "set_at_index" /\ phase = "live" /\ last'.arg[1] < db.capacity)
          => /\ last'.ret = Unit
             /\ db'.front = db.front
             /\ db'.capacity = db.capacity
             /\ DOMAIN db'.buffer = DOMAIN db.buffer
             /\ \A a \in DOMAIN db.buffer :
                   db'.buffer[a] = IF a = (db.front + last'.arg[1]) % db.capacity
                                   THEN Some(last'.arg[2])
                                   ELSE db.buffer[a]]_vars

\* set_at_index has written, twice in a row, a slot reached by wrapping,
\* beside an occupied slot and an empty one.
C17_Witness ==
    /\ last.op = "set_at_index"
    /\ last.ret = Unit
    /\ last.again
    /\ db.front + last.arg[1] >= db.capacity
    /\ \E a, b \in DOMAIN db.buffer :
          /\ a # (db.front + last.arg[1]) % db.capacity
          /\ b # (db.front + last.arg[1]) % db.capacity
          /\ is_some(db.buffer[a])
          /\ ~is_some(db.buffer[b])

----------------------------------------------------------------------------
\* Construction

\* C14 as stated, for the FIFO buffer: new(0) fails, so no CircularBuffer
\* with capacity == 0 is ever there to be called.  (DiscoidBuffer::new builds
\* its instance the same way, without looking at size.)
C14_ZeroCapacityRejected ==
    cb.capacity > 0

----------------------------------------------------------------------------
\* Invariants of CircularBuffer

\* The absolute slots of the occupied run: len slots from front on, wrapping.
RunSlots(self) ==
    {a \in DOMAIN self.buffer : \E j \in 0..(self.len - 1) : a = (self.front + j) % self.capacity}

\* C15 (contiguous run): in every state reached by push, pop, get and
\* remove_multiple the occupied slots are exactly the len slots at
\* (front + j) mod capacity for j < len; every other slot is None.
C15_ContiguousRun ==
    /\ DOMAIN cb.buffer = 0..(cb.capacity - 1)
    /\ \A a \in DOMAIN cb.buffer : is_some(cb.buffer[a]) <=> a \in RunSlots(cb)
    /\ Cardinality(RunSlots(cb)) = len(cb)

\* After a remove_multiple the occupied run wraps past the end of the backing
\* vector and leaves a slot in the middle of the vector empty.
C15_Witness ==
    /\ phase = "live"
    /\ last.op = "remove_multiple"
    /\ last.arg > 0
    /\ cb.front + len(cb) > cb.capacity
    /\ len(cb) < cb.capacity

\* C16 (cursors), for capacity > 0: front and rear are in 0..capacity-1, len
\* is in 0..capacity, rear == (front + len) mod capacity, and front == rear
\* exactly when the buffer is empty or full.
C16_CursorsWellFormed ==
    cb.capacity > 0 =>
        /\ cb.front \in 0..(cb.capacity - 1)
        /\ cb.rear \in 0..(cb.capacity - 1)
        /\ len(cb) \in 0..cb.capacity
        /\ cb.rear = (cb.front + len(cb)) % cb.capacity
        /\ (cb.front = cb.rear) <=> (is_empty(cb) \/ is_full(cb))

\* A push has filled the buffer with front == rear away from slot 0.
C16_Witness ==
    /\ last.op = "push"
    /\ last.ret = Ok
    /\ is_full(cb)
    /\ cb.front = cb.rear
    /\ cb.front > 0
    /\ cb.capacity > 1

\* C18 (iteration refines pop): while a buffer is iterated, cb being the
\* buffer into_iter consumed, the iterator after k calls of next that returned
\* a value holds the slots and the count that k pops leave from cb, and the
\* k-th next returned what the k-th pop would have returned; next returns None
\* only after len values, and then every slot is empty, remaining is 0 and
\* further calls of next return None and change nothing.
C18_IterRefinesPop ==
    phase = "iter" =>
        /\ it.current <= len(cb)
        /\ it.buffer = PopTimes(cb, it.current).buffer
        /\ it.remaining = PopTimes(cb, it.current).len
        /\ it.capacity > 0
              => (it.front + it.current) % it.capacity = PopTimes(cb, it.current).front
        /\ (last.op = "next" /\ is_some(last.ret))
              => last.ret = pop(PopTimes(cb, it.current - 1)).ret
        /\ (last.op = "next" /\ last.ret = None_) => it.current = len(cb)
        /\ it.current = len(cb)
              => /\ it.remaining = 0
                 /\ \A a \in DOMAIN it.buffer : it.buffer[a] = None_
                 /\ next(it) = [self |-> it, ret |-> None_]

\* The iteration of a full buffer whose front is not slot 0 has returned
\* None twice after emptying every slot.
C18_Witness ==
    /\ phase = "iter"
    /\ last.op = "next"
    /\ last.ret = None_
    /\ last.again
    /\ cb.front > 0
    /\ len(cb) = cb.capacity
    /\ cb.capacity >= 2
    /\ it.current = len(cb)

\* C19 (discard_front shifts the logical indices): discard_front(k) with
\* k <= capacity returns normally; afterwards get_at_index(i) is what
\* get_at_index(i + k) was for every i with i + k < capacity, get_at_index(i)
\* is absent for every i from capacity - k up to capacity - 1, and
\* get_bits_representation() is the previous bitmask shifted right by k.
C19_DiscardShiftsIndices ==
    [][(last'.op = "discard_front" /\ phase = "live" /\ last'.arg <= db.capacity)
          => LET k == last'.arg
             IN  /\ last'.ret = Unit
                 /\ \A i \in Args :
                       i + k < db.capacity
                          => get_at_index(db', i) = get_at_index(db, i + k)
                 /\ \A i \in Args :
                       (db.capacity - k <= i /\ i < db.capacity)
                          => get_at_index(db', i) = None_
                 /\ get_bits_representation(db')
                       = get_bits_representation(db) \div (2 ^ k)]_vars

\* discard_front has dropped some but not all logical indices, its front
\* wrapping past the last slot, and a value is still present behind a gap.
C19_Witness ==
    /\ last.op = "discard_front"
    /\ last.ret = Unit
    /\ last.arg >= 1
    /\ last.arg < db.capacity
    /\ db.front < last.arg
    /\ get_at_index(db, 0) = None_
    /\ \E i \in 1..(db.capacity - last.arg - 1) : is_some(get_at_index(db, i))

\* C20 (no operation of CircularBuffer can abort): in every reachable state,
\* of a buffer of capacity 0 too, no call has panicked and none of push, pop,
\* get, remove_multiple or the iterator's next would: pop's expect does not
\* fire, no slot index leaves 0..capacity-1, nothing is taken modulo zero and
\* len is not decremented at 0.  While len > 0 the slot at front is occupied,
\* and while len < capacity the slot at rear is empty.
C20_NoAbort ==
    /\ phase # "panicked"
    /\ last.ret.tag # "Panic"
    /\ \A value \in Values : push(cb, value).ret.tag # "Panic"
    /\ pop(cb).ret.tag # "Panic"
    /\ \A index \in Args : get(cb, index).tag # "Panic"
    /\ \A count \in Args : remove_multiple(cb, count).ret.tag # "Panic"
    /\ phase = "iter" => next(it).ret.tag # "Panic"
    /\ len(cb) > 0 => (cb.front \in DOMAIN cb.buffer /\ is_some(cb.buffer[cb.front]))
    /\ len(cb) < cb.capacity
          => (cb.rear \in DOMAIN cb.buffer /\ cb.buffer[cb.rear] = None_)

\* A pop from the last slot has returned a value and wrapped front to slot 0,
\* leaving a buffer that is neither empty nor full.
C20_Witness ==
    /\ phase = "live"
    /\ last.op = "pop"
    /\ is_some(last.ret)
    /\ cb.capacity >= 2
    /\ cb.front = 0
    /\ len(cb) > 0
    /\ len(cb) < cb.capacity

====
